---- MODULE Spec2Model ----
(***************************************************************************)
(* mcp-composer (src/src/index.ts, the subcommand CLI of lines 24-553):    *)
(* composing server templates of the registry ~/.mcp.json into per-client  *)
(* configuration files.                                                    *)
(*                                                                         *)
(* Representation.                                                         *)
(*  - A string the code inspects character by character (an args element, *)
(*    an env value, an environment variable's name or value) is a sequence *)
(*    of one-character strings, so that startsWith, endsWith and substring *)
(*    are computed as the code computes them.  Strings the code only       *)
(*    compares for equality (client and server names, commands, object     *)
(*    keys) are TLA+ strings.                                              *)
(*  - A JavaScript object whose key order the code observes (mcpServers,   *)
(*    env) is an ordered map: a sequence of [key, val] pairs with distinct *)
(*    keys, in insertion order.                                            *)
(*  - A JSON client file is the JSON document it holds (JSON.parse of      *)
(*    JSON.stringify is the same document); a JSON-Lines file is the       *)
(*    sequence of its lines, each the JSON object of that line.  An        *)
(*    optional property is a field that is in the record's DOMAIN or not.  *)
(***************************************************************************)
EXTENDS Integers, Sequences, FiniteSets, TLC

VARIABLES
    files,      \* client name -> content of the client's configuration file
    registry,   \* ~/.mcp.json: ordered map, server name -> template
    environ,    \* process.env after dotenv: ordered map, name -> value
    nops,       \* number of invocations so far
    last        \* the last invocation: its inputs, outcome and output

vars == <<files, registry, environ, nops, last>>

----------------------------------------------------------------------------
(* Bounds of the model.                                                    *)

MaxOps == 2        \* invocations of the CLI in one behaviour
MaxArgsLen == 3    \* length of a template's args (unit specification)
MaxProvided == 3   \* number of extra arguments given (unit specification)

----------------------------------------------------------------------------
(* Strings as character sequences.                                         *)

StartsWith(s, p) == Len(s) >= Len(p) /\ SubSeq(s, 1, Len(p)) = p

EndsWith(s, p) == Len(s) >= Len(p) /\ SubSeq(s, Len(s) - Len(p) + 1, Len(s)) = p

\* arg.startsWith('%{') && arg.endsWith('}')
IsPlaceholder(s) == StartsWith(s, <<"%", "{">>) /\ EndsWith(s, <<"}">>)

\* arg.substring(2, arg.length - 1)
PlaceholderName(s) == SubSeq(s, 3, Len(s) - 1)

\* JavaScript truthiness of a string: the empty string is falsy
Truthy(s) == s # <<>>

----------------------------------------------------------------------------
(* Ordered maps (JavaScript objects with string keys).                     *)

Has(m, k) == \E i \in 1..Len(m) : m[i].key = k

Get(m, k) == m[CHOOSE i \in 1..Len(m) : m[i].key = k].val

KeysOf(m) == {m[i].key : i \in 1..Len(m)}

\* variant of Put that forgets the other keys
PutDropsOthers(m, k, v) == <<[key |-> k, val |-> v]>>

\* m[k] = v: an existing key keeps its place, a new key goes last
Put(m, k, v) ==
    IF Has(m, k)
    THEN [i \in 1..Len(m) |-> IF m[i].key = k THEN [key |-> k, val |-> v] ELSE m[i]]
    ELSE Append(m, [key |-> k, val |-> v])

\* variant of Del that deletes nothing
DelKeepsAll(m, k) == m

\* delete m[k]
Del(m, k) == SelectSeq(m, LAMBDA e : e.key # k)

----------------------------------------------------------------------------
(* The client table and the store adapter.                                 *)

validClients == <<"claude", "cline", "opencode", "y-cli">>

ValidClientSet == {validClients[i] : i \in 1..Len(validClients)}

clients == [c \in ValidClientSet |-> IF c = "y-cli" THEN "jsonlines" ELSE "json"]

\* a file that is there and cannot be read or parsed
Unreadable == [readable |-> FALSE]

\* no file at the path: readFileSync throws as it does for an unreadable one
Missing == [readable |-> FALSE, exists |-> FALSE]

JsonFile(doc) == [readable |-> TRUE, doc |-> doc]

JsonlFile(lines) == [readable |-> TRUE, lines |-> lines]

\* a parsed configuration object: the mcpServers property (when it has one)
\* and the rest of its top-level properties
Config(hasServers, servers, rest) ==
    [hasServers |-> hasServers, mcpServers |-> servers, rest |-> rest]

Failed == [ok |-> FALSE]

Loaded(config) == [ok |-> TRUE, config |-> config]

\* x || [] for an optional property
OrEmpty(r, f) == IF f \in DOMAIN r THEN r[f] ELSE <<>>

\* variant of LineToEntry that reads no args
LineToEntryNoArgs(r) ==
    [f \in {"args", "env", "auto_confirm"} \cup (DOMAIN r \cap {"command"}) |->
        IF f = "command" THEN r.command
        ELSE IF f = "args" THEN <<>> ELSE OrEmpty(r, f)]

\* one record of the JSON-Lines file as an mcpServers entry
LineToEntry(r) ==
    [f \in {"args", "env", "auto_confirm"} \cup (DOMAIN r \cap {"command"}) |->
        IF f = "command" THEN r.command ELSE OrEmpty(r, f)]

RECURSIVE FoldLines(_, _)
FoldLines(lines, acc) ==
    IF lines = <<>> THEN acc
    ELSE LET r == Head(lines)
         IN  FoldLines(Tail(lines),
                       IF "name" \in DOMAIN r /\ r.name # ""
                       THEN Put(acc, r.name, LineToEntry(r))
                       ELSE acc)

getJsonlinesConfig(file) ==
    IF ~file.readable THEN Failed
    ELSE Loaded(Config(TRUE, FoldLines(file.lines, <<>>), <<>>))

\* variant of EntryToLine that writes an empty env
EntryToLineDropsEnv(name, e) ==
    [f \in {"name", "args", "env", "auto_confirm"} \cup (DOMAIN e \cap {"command"}) |->
        CASE f = "name" -> name
          [] f = "command" -> e.command
          [] f = "env" -> <<>>
          [] OTHER -> OrEmpty(e, f)]

\* one mcpServers entry as a record of the JSON-Lines file
EntryToLine(name, e) ==
    [f \in {"name", "args", "env", "auto_confirm"} \cup (DOMAIN e \cap {"command"}) |->
        CASE f = "name" -> name
          [] f = "command" -> e.command
          [] OTHER -> OrEmpty(e, f)]

updateJsonlinesConfig(config) ==
    LET servers == IF config.hasServers THEN config.mcpServers ELSE <<>>
    IN  JsonlFile([i \in 1..Len(servers) |-> EntryToLine(servers[i].key, servers[i].val)])

getClientConfig(fs, client) ==
    IF clients[client] = "jsonlines" THEN getJsonlinesConfig(fs[client])
    ELSE IF ~fs[client].readable THEN Failed
    ELSE Loaded(fs[client].doc)

\* variant of WrittenFile that writes the mcpServers property alone
WrittenFileDropsRest(client, config) ==
    IF clients[client] = "jsonlines" THEN updateJsonlinesConfig(config)
    ELSE JsonFile(Config(config.hasServers, config.mcpServers, <<>>))

\* the file updateClientConfig writes
WrittenFile(client, config) ==
    IF clients[client] = "jsonlines" THEN updateJsonlinesConfig(config)
    ELSE JsonFile(config)

\* variant of updateClientConfig that writes the file of every client
updateClientConfigEveryClient(fs, client, config) ==
    [c \in DOMAIN fs |-> WrittenFile(c, config)]

updateClientConfig(fs, client, config) ==
    [fs EXCEPT ![client] = WrittenFile(client, config)]

\* the server instances of a loaded configuration: none without mcpServers
Servers(config) == IF config.hasServers THEN config.mcpServers ELSE <<>>

----------------------------------------------------------------------------
(* Validation of the client, the server and the server's requirements.     *)

\* process.env[name] is truthy: the variable is set and is not empty
EnvTruthy(environment, name) == Has(environment, name) /\ Truthy(Get(environment, name))

\* validateClientServer: the failure it exits with, or "ok"
validateClientServer(reg, client, server) ==
    IF client \notin ValidClientSet THEN "UnknownClient"
    ELSE IF Len(reg) = 0 THEN "NoServersDefined"
    ELSE IF ~Has(reg, server) THEN "UnknownServer"
    ELSE "ok"

\* the loop over serverConfig.args; count is argPlaceholderCount so far
RECURSIVE ArgRequirements(_, _, _)
ArgRequirements(args, count, providedArgs) ==
    IF args = <<>> THEN <<>>
    ELSE LET arg == Head(args)
         IN  IF IsPlaceholder(arg)
             THEN (IF Len(providedArgs) < count + 1
                   THEN <<[type |-> "arg", name |-> PlaceholderName(arg)]>>
                   ELSE <<>>)
                  \o ArgRequirements(Tail(args), count + 1, providedArgs)
             ELSE ArgRequirements(Tail(args), count, providedArgs)

\* variant of EnvRequirements that requires nothing
EnvRequirementsNone(env, environment) == <<>>

\* the loop over Object.entries(serverConfig.env)
RECURSIVE EnvRequirements(_, _)
EnvRequirements(env, environment) ==
    IF env = <<>> THEN <<>>
    ELSE LET value == Head(env).val
         IN  (IF IsPlaceholder(value) /\ ~EnvTruthy(environment, PlaceholderName(value))
              THEN <<[type |-> "env", name |-> PlaceholderName(value)]>>
              ELSE <<>>)
             \o EnvRequirements(Tail(env), environment)

\* variant of validateServerRequirements that stops at the first missing argument
validateServerRequirementsFirstOnly(serverConfig, providedArgs, environment) ==
    LET all == (IF "args" \in DOMAIN serverConfig
                THEN ArgRequirements(serverConfig.args, 0, providedArgs) ELSE <<>>)
    IN  IF all = <<>> THEN <<>> ELSE <<Head(all)>>

\* variant of validateServerRequirements in which a missing argument hides
\* the environment variables
validateServerRequirementsArgsHideEnv(serverConfig, providedArgs, environment) ==
    LET argItems == (IF "args" \in DOMAIN serverConfig
                     THEN ArgRequirements(serverConfig.args, 0, providedArgs) ELSE <<>>)
    IN  IF argItems # <<>> THEN argItems
        ELSE IF "env" \in DOMAIN serverConfig
        THEN EnvRequirements(serverConfig.env, environment) ELSE <<>>

\* requiredItems of validateServerRequirements; it exits when the list is not empty
validateServerRequirements(serverConfig, providedArgs, environment) ==
    (IF "args" \in DOMAIN serverConfig
     THEN ArgRequirements(serverConfig.args, 0, providedArgs) ELSE <<>>)
    \o
    (IF "env" \in DOMAIN serverConfig
     THEN EnvRequirements(serverConfig.env, environment) ELSE <<>>)

----------------------------------------------------------------------------
(* Resolution of a template (the two replacement blocks of add).           *)

WithField(r, f, v) == [g \in DOMAIN r \cup {f} |-> IF g = f THEN v ELSE r[g]]

\* the loop over clientServerConfig.args; idx is providedArgIndex
RECURSIVE ReplaceArgsLoop(_, _, _, _)
ReplaceArgsLoop(targs, args, idx, replacedArgs) ==
    IF targs = <<>> THEN [replacedArgs |-> replacedArgs, idx |-> idx]
    ELSE LET arg == Head(targs)
         IN  IF IsPlaceholder(arg) /\ idx < Len(args)
             THEN ReplaceArgsLoop(Tail(targs), args, idx + 1, Append(replacedArgs, args[idx + 1]))
             ELSE ReplaceArgsLoop(Tail(targs), args, idx, Append(replacedArgs, arg))

\* variant of ResolveArgs that drops the arguments past the last placeholder
ResolveArgsNoAppend(serverConfig, args) ==
    IF "args" \in DOMAIN serverConfig
    THEN [serverConfig EXCEPT !.args = ReplaceArgsLoop(serverConfig.args, args, 0, <<>>).replacedArgs]
    ELSE serverConfig

\* the args replacement block: the template copy with its args resolved
ResolveArgs(serverConfig, args) ==
    IF "args" \in DOMAIN serverConfig
    THEN LET r == ReplaceArgsLoop(serverConfig.args, args, 0, <<>>)
         IN  [serverConfig EXCEPT
                 !.args = r.replacedArgs \o SubSeq(args, r.idx + 1, Len(args))]
    ELSE IF Len(args) > 0 THEN WithField(serverConfig, "args", args)
    ELSE serverConfig

\* variant of ReplacedEnvValue that substitutes nothing
ReplacedEnvValueKeepsAll(value, environment) == value

\* the value the env replacement block stores for one env value
ReplacedEnvValue(value, environment) ==
    IF IsPlaceholder(value) /\ EnvTruthy(environment, PlaceholderName(value))
    THEN Get(environment, PlaceholderName(value))
    ELSE value

\* the env replacement block: the entry with its env resolved
ResolveEnv(entry, environment) ==
    IF "env" \in DOMAIN entry
    THEN [entry EXCEPT !.env =
             [i \in 1..Len(entry.env) |->
                 [key |-> entry.env[i].key,
                  val |-> ReplacedEnvValue(entry.env[i].val, environment)]]]
    ELSE entry

\* the names console.warn reports: env placeholders with no truthy value
EnvWarnings(entry, environment) ==
    IF "env" \in DOMAIN entry
    THEN LET unresolved ==
                 SelectSeq(entry.env,
                           LAMBDA e : IsPlaceholder(e.val)
                                      /\ ~EnvTruthy(environment, PlaceholderName(e.val)))
         IN  [i \in 1..Len(unresolved) |-> PlaceholderName(unresolved[i].val)]
    ELSE <<>>

Resolve(serverConfig, args, environment) ==
    ResolveEnv(ResolveArgs(serverConfig, args), environment)

----------------------------------------------------------------------------
(* The commands.  Each operator is one invocation of the CLI: it gives the *)
(* outcome ("ok", or the failure the process exits with), the files the    *)
(* invocation leaves and what it prints.                                   *)

Exit(fs, kind) ==
    [outcome |-> kind, files |-> fs, wrote |-> FALSE, msg |-> "",
     count |-> 0, missing |-> <<>>, warnings |-> <<>>, listed |-> <<>>]

Done(fs, msg, count, warnings, wrote) ==
    [outcome |-> "ok", files |-> fs, wrote |-> wrote, msg |-> msg,
     count |-> count, missing |-> <<>>, warnings |-> warnings, listed |-> <<>>]

\* variant of AlreadyExists that does not look at --force
AlreadyExistsIgnoresForce(servers, server, force) == Has(servers, server)

\* clientConfig.mcpServers[server] && !options.force
AlreadyExists(servers, server, force) == Has(servers, server) /\ ~force

\* variant of CountServers that is one short
CountServersOffByOne(servers) == Len(servers) - 1

\* Object.keys(clientConfig.mcpServers).length
CountServers(servers) == Len(servers)

addCommand(fs, reg, environment, client, server, args, force) ==
    LET v == validateClientServer(reg, client, server)
    IN  IF v # "ok" THEN Exit(fs, v)
        ELSE
        LET serverConfig == Get(reg, server)
            requiredItems == validateServerRequirements(serverConfig, args, environment)
        IN  IF requiredItems # <<>>
            THEN [Exit(fs, "MissingRequirements") EXCEPT !.missing = requiredItems]
            ELSE
            LET loaded == getClientConfig(fs, client)
            IN  IF ~loaded.ok THEN Exit(fs, "ConfigIOError")
                ELSE
                \* if (!clientConfig.mcpServers) clientConfig.mcpServers = {}
                LET clientConfig == Config(TRUE, Servers(loaded.config), loaded.config.rest)
                IN  IF AlreadyExists(clientConfig.mcpServers, server, force)
                    THEN Exit(fs, "AlreadyExists")
                    ELSE
                    LET clientServerConfig == Resolve(serverConfig, args, environment)
                        updated == [clientConfig EXCEPT
                                       !.mcpServers = Put(@, server, clientServerConfig)]
                        \* evaluated after the assignment above
                        actionVerb == IF force /\ Has(updated.mcpServers, server)
                                      THEN "Updated" ELSE "Added"
                    IN  Done(updateClientConfig(fs, client, updated), actionVerb, 0,
                             EnvWarnings(serverConfig, environment), TRUE)

\* variant of removeCommand that saves before it looks for the server
removeCommandSavesFirst(fs, client, server) ==
    IF client \notin ValidClientSet THEN Exit(fs, "UnknownClient")
    ELSE
    LET loaded == getClientConfig(fs, client)
    IN  IF ~loaded.ok THEN Exit(fs, "ConfigIOError")
        ELSE
        LET clientConfig == loaded.config
            updated == [clientConfig EXCEPT !.mcpServers = Del(@, server)]
            saved == updateClientConfig(fs, client, updated)
        IN  IF ~clientConfig.hasServers \/ ~Has(clientConfig.mcpServers, server)
            THEN [Exit(saved, "NotFound") EXCEPT !.wrote = TRUE]
            ELSE Done(saved, "Removed", 0, <<>>, TRUE)

removeCommand(fs, client, server) ==
    IF client \notin ValidClientSet THEN Exit(fs, "UnknownClient")
    ELSE
    LET loaded == getClientConfig(fs, client)
    IN  IF ~loaded.ok THEN Exit(fs, "ConfigIOError")
        ELSE
        LET clientConfig == loaded.config
        IN  IF ~clientConfig.hasServers \/ ~Has(clientConfig.mcpServers, server)
            THEN Exit(fs, "NotFound")
            ELSE
            LET updated == [clientConfig EXCEPT !.mcpServers = Del(@, server)]
            IN  Done(updateClientConfig(fs, client, updated), "Removed", 0, <<>>, TRUE)

clearCommand(fs, client) ==
    IF client \notin ValidClientSet THEN Exit(fs, "UnknownClient")
    ELSE
    LET loaded == getClientConfig(fs, client)
    IN  IF ~loaded.ok THEN Exit(fs, "ConfigIOError")
        ELSE
        LET clientConfig == loaded.config
        IN  IF ~clientConfig.hasServers \/ CountServers(clientConfig.mcpServers) = 0
            THEN \* "No servers configured for <client>", and return
                 Done(fs, "NoServersConfigured", 0, <<>>, FALSE)
            ELSE
            LET serverCount == CountServers(clientConfig.mcpServers)
                updated == [clientConfig EXCEPT !.mcpServers = <<>>]
            IN  Done(updateClientConfig(fs, client, updated), "Cleared", serverCount,
                     <<>>, TRUE)

\* the names of a mapping in stored order
Names(servers) == [i \in 1..Len(servers) |-> servers[i].key]

\* list <client>: the names of the client's server instances
listOne(fs, client) ==
    LET loaded == getClientConfig(fs, client)
    IN  IF ~loaded.ok THEN Exit(fs, "ConfigIOError")
        ELSE [Done(fs, "Listed", 0, <<>>, FALSE) EXCEPT
                 !.listed = IF Len(Servers(loaded.config)) > 0
                            THEN <<[client |-> client,
                                    servers |-> Names(Servers(loaded.config))]>>
                            ELSE <<>>]

\* list without a client: the loop over validClients from index i on, printed
\* being the output so far.  getClientConfig ends the process in its own catch
\* block when a file cannot be read, so the loop's catch block is never entered.
RECURSIVE listAll(_, _, _)
listAll(fs, i, printed) ==
    IF i > Len(validClients)
    THEN [Done(fs, "Listed", 0, <<>>, FALSE) EXCEPT !.listed = printed]
    ELSE LET clientName == validClients[i]
             loaded == getClientConfig(fs, clientName)
         IN  IF ~loaded.ok
             THEN [Exit(fs, "ConfigIOError") EXCEPT !.listed = printed]
             ELSE listAll(fs, i + 1,
                          IF Len(Servers(loaded.config)) > 0
                          THEN Append(printed, [client |-> clientName,
                                                servers |-> Names(Servers(loaded.config))])
                          ELSE printed)

\* client is "" when the argument is omitted
listCommand(fs, client) ==
    IF client # "" /\ client \notin ValidClientSet THEN Exit(fs, "UnknownClient")
    ELSE IF client # "" THEN listOne(fs, client)
    ELSE listAll(fs, 1, <<>>)

\* what servers --verbose prints for one env value
ShownEnv(e) ==
    IF IsPlaceholder(e.val)
    THEN [key |-> e.key, static |-> FALSE, name |-> PlaceholderName(e.val)]
    ELSE [key |-> e.key, static |-> TRUE, name |-> <<>>]

serversCommand(fs, reg, verbose) ==
    IF Len(reg) = 0 THEN Done(fs, "NoServersDefined", 0, <<>>, FALSE)
    ELSE [Done(fs, "Available", 0, <<>>, FALSE) EXCEPT
             !.listed =
                 IF verbose
                 THEN [i \in 1..Len(reg) |->
                          [name |-> reg[i].key,
                           command |-> reg[i].val.command,
                           args |-> OrEmpty(reg[i].val, "args"),
                           env |-> [j \in 1..Len(OrEmpty(reg[i].val, "env")) |->
                                       ShownEnv(reg[i].val.env[j])]]]
                 ELSE Names(reg)]

----------------------------------------------------------------------------
(* Strings of the model, shortened from those of the README: the package  *)
(* names "fetch", "sqlite" and "github", "--db" for --db-path, "%{db}" for *)
(* %{sqlite-db-path}, "./m.db" for ./movies.db, TOKEN for                  *)
(* GITHUB_PERSONAL_ACCESS_TOKEN.                                           *)

S_fetch == <<"f", "e", "t", "c", "h">>

S_sqlite == <<"s", "q", "l", "i", "t", "e">>

S_db == <<"-", "-", "d", "b">>

S_ph_db == <<"%", "{", "d", "b", "}">>

S_movies == <<".", "/", "m", ".", "d", "b">>

S_y == <<"-", "y">>

S_github == <<"g", "i", "t", "h", "u", "b">>

S_ph_TOKEN == <<"%", "{", "T", "O", "K", "E", "N", "}">>

S_TOKEN == <<"T", "O", "K", "E", "N">>

S_ghp == <<"g", "h", "p">>

S_index == <<"i", ".", "j", "s">>

KV(k, v) == [key |-> k, val |-> v]

\* all sequences over vals of length at most n
SeqsUpTo(vals, n) == UNION {[1..k -> vals] : k \in 0..n}

----------------------------------------------------------------------------
(* The files of the model.                                                 *)

\* ~/.mcp.json as in the README: a plain template, one with a positional
\* placeholder, one with an environment placeholder
Registry ==
    << KV("fetch",  [command |-> "uvx", args |-> <<S_fetch>>]),
       KV("sqlite", [command |-> "uvx",
                     args |-> <<S_sqlite, S_db, S_ph_db>>]),
       KV("github", [command |-> "npx",
                     args |-> <<S_y, S_github>>,
                     env |-> <<KV("TOKEN", S_ph_TOKEN)>>]) >>

\* the environment: the token unset, or set
Environs ==
    { <<>>, <<KV(S_TOKEN, S_ghp)>> }

\* entries a client file holds before the first invocation
FetchEntry == [command |-> "uvx", args |-> <<S_fetch>>, disabled |-> TRUE]

OtherEntry == [command |-> "node", args |-> <<S_index>>,
               env |-> <<KV("PORT", <<"8">>)>>]

JsonBare == JsonFile(Config(FALSE, <<>>, <<>>))

JsonEmpty == JsonFile(Config(TRUE, <<>>, <<KV("theme", "dark")>>))

JsonTwo ==
    JsonFile(Config(TRUE, <<KV("other", OtherEntry), KV("fetch", FetchEntry)>>,
                    <<KV("theme", "dark"), KV("numStartups", "7")>>))

JsonlEmpty == JsonlFile(<<>>)

\* the y-cli file of one record with name, command and args only
JsonlFetch ==
    JsonlFile(<< [name |-> "fetch", command |-> "uvx", args |-> <<S_fetch>>] >>)

\* a full record, a record without a name, and a name that occurs twice
JsonlMixed ==
    JsonlFile(<< [name |-> "other", command |-> "node", args |-> <<S_index>>,
                  env |-> <<KV("PORT", <<"8">>)>>, auto_confirm |-> <<"read">>],
                 [command |-> "true"],
                 [name |-> "sqlite", command |-> "uvx"],
                 [name |-> "other", command |-> "deno", auto_confirm |-> <<"read">>] >>)

MkFiles(claude, cline, opencode, ycli) ==
    [c \in ValidClientSet |->
        CASE c = "claude" -> claude
          [] c = "cline" -> cline
          [] c = "opencode" -> opencode
          [] OTHER -> ycli]

InitialFiles ==
    { MkFiles(JsonBare, JsonEmpty, JsonTwo, JsonlEmpty),
      MkFiles(JsonTwo, JsonBare, JsonEmpty, JsonlFetch),
      MkFiles(JsonEmpty, JsonTwo, Unreadable, JsonlMixed),
      MkFiles(Unreadable, JsonEmpty, JsonBare, Unreadable),
      MkFiles(JsonTwo, JsonEmpty, Missing, Missing) }

\* the arguments of the invocations
ClientInputs == {"claude", "y-cli", "codex"}

ServerInputs == KeysOf(Registry) \cup {"nosuch"}

ArgInputs == {<<>>, <<S_movies>>}

----------------------------------------------------------------------------
(* The state machine: one action per invocation of a command.              *)

NoOp(fs) ==
    [op |-> "none", client |-> "", server |-> "", args |-> <<>>, force |-> FALSE,
     outcome |-> "", wrote |-> FALSE, msg |-> "", count |-> 0, missing |-> <<>>,
     warnings |-> <<>>, listed |-> <<>>, pre |-> fs, afterAdd |-> FALSE, sameArgs |-> FALSE,
     preAdd |-> Unreadable]

\* the record of an invocation; afterAdd: the invocation before it was a
\* successful add of the same client and server (sameArgs: and of the same
\* arguments), whose file before it was preAdd
Invocation(op, client, server, args, force, r) ==
    LET afterAdd == /\ last.op = "add" /\ last.outcome = "ok"
                    /\ last.client = client /\ last.server = server
    IN  [op |-> op, client |-> client, server |-> server, args |-> args,
         force |-> force, outcome |-> r.outcome, wrote |-> r.wrote, msg |-> r.msg,
         count |-> r.count, missing |-> r.missing, warnings |-> r.warnings, listed |-> r.listed,
         pre |-> files, afterAdd |-> afterAdd, sameArgs |-> afterAdd /\ last.args = args,
         preAdd |-> IF afterAdd THEN last.pre[client] ELSE Unreadable]

Init ==
    /\ files \in InitialFiles
    /\ registry = Registry
    /\ environ \in Environs
    /\ nops = 0
    /\ last = NoOp(files)

Add(client, server, args, force) ==
    /\ nops < MaxOps
    /\ LET r == addCommand(files, registry, environ, client, server, args, force)
       IN  /\ files' = r.files
           /\ last' = Invocation("add", client, server, args, force, r)
    /\ nops' = nops + 1
    /\ UNCHANGED <<registry, environ>>

Remove(client, server) ==
    /\ nops < MaxOps
    /\ LET r == removeCommand(files, client, server)
       IN  /\ files' = r.files
           /\ last' = Invocation("remove", client, server, <<>>, FALSE, r)
    /\ nops' = nops + 1
    /\ UNCHANGED <<registry, environ>>

Clear(client) ==
    /\ nops < MaxOps
    /\ LET r == clearCommand(files, client)
       IN  /\ files' = r.files
           /\ last' = Invocation("clear", client, "", <<>>, FALSE, r)
    /\ nops' = nops + 1
    /\ UNCHANGED <<registry, environ>>

List(client) ==
    /\ nops < MaxOps
    /\ LET r == listCommand(files, client)
       IN  /\ files' = r.files
           /\ last' = Invocation("list", client, "", <<>>, FALSE, r)
    /\ nops' = nops + 1
    /\ UNCHANGED <<registry, environ>>

ListServers(verbose) ==
    /\ nops < MaxOps
    /\ LET r == serversCommand(files, registry, verbose)
       IN  /\ files' = r.files
           /\ last' = Invocation("servers", "", "", <<>>, verbose, r)
    /\ nops' = nops + 1
    /\ UNCHANGED <<registry, environ>>

Next ==
    \/ \E client \in ClientInputs :
           \/ \E server \in ServerInputs, args \in ArgInputs, force \in BOOLEAN :
                  Add(client, server, args, force)
           \/ \E server \in ServerInputs : Remove(client, server)
           \/ Clear(client)
    \/ \E client \in ClientInputs \cup {""} : List(client)
    \/ \E verbose \in BOOLEAN : ListServers(verbose)

Spec == Init /\ [][Next]_vars

----------------------------------------------------------------------------
(* The save of a command in steps.  writeFileSync(path, data) opens the     *)
(* file for writing, which truncates it, writes the data piece by piece and *)
(* closes it; the open and every write can fail (no permission, no space),  *)
(* and the process then exits from the catch block of the save.  A piece is *)
(* a line of a JSON-Lines file, and for a JSON file a brace or a top-level  *)
(* member.                                                                  *)

\* the number of pieces of a file's content
Pieces(content) ==
    IF "lines" \in DOMAIN content THEN Len(content.lines)
    ELSE 2 + (IF content.doc.hasServers THEN 1 ELSE 0) + Len(content.doc.rest)

\* the file when k pieces of content are written: a JSON text that is not
\* complete does not parse
WrittenSoFar(content, k) ==
    IF "lines" \in DOMAIN content THEN JsonlFile(SubSeq(content.lines, 1, k))
    ELSE IF k = Pieces(content) THEN content
    ELSE [readable |-> FALSE, written |-> k]

\* one invocation of add, remove or clear
RunCommand(op, fs, reg, environment, client, server, args, force) ==
    CASE op = "add" -> addCommand(fs, reg, environment, client, server, args, force)
      [] op = "remove" -> removeCommand(fs, client, server)
      [] OTHER -> clearCommand(fs, client)

InitSave ==
    /\ files \in InitialFiles
    /\ registry = Registry
    /\ environ \in Environs
    /\ nops = 0
    /\ last = [op |-> "none", pc |-> "idle", client |-> "", outcome |-> "",
               content |-> Unreadable, old |-> Unreadable, written |-> 0]

\* the command up to its call of updateClientConfig: what it would write is
\* computed, nothing is written yet; a command that writes nothing ends here
BeginCommand(op, client, server, args, force) ==
    /\ last.pc \in {"idle", "done", "failed"}
    /\ nops < MaxOps
    /\ LET r == RunCommand(op, files, registry, environ, client, server, args, force)
       IN  last' = [op |-> op, pc |-> IF r.wrote THEN "open" ELSE "done",
                    client |-> client, outcome |-> r.outcome,
                    content |-> IF r.wrote THEN r.files[client] ELSE Unreadable,
                    old |-> IF r.wrote THEN files[client] ELSE Unreadable,
                    written |-> 0]
    /\ nops' = nops + 1
    /\ UNCHANGED <<files, registry, environ>>

\* the open succeeds: the file is truncated
OpenTruncates ==
    /\ last.pc = "open"
    /\ files' = [files EXCEPT ![last.client] = WrittenSoFar(last.content, 0)]
    /\ last' = [last EXCEPT !.pc = "write"]
    /\ UNCHANGED <<registry, environ, nops>>

\* the open fails: the catch block prints the error and the process exits
OpenFails ==
    /\ last.pc = "open"
    /\ last' = [last EXCEPT !.pc = "failed", !.outcome = "ConfigIOError"]
    /\ UNCHANGED <<files, registry, environ, nops>>

WritePiece ==
    /\ last.pc = "write"
    /\ last.written < Pieces(last.content)
    /\ files' = [files EXCEPT ![last.client] = WrittenSoFar(last.content, last.written + 1)]
    /\ last' = [last EXCEPT !.written = @ + 1]
    /\ UNCHANGED <<registry, environ, nops>>

\* a write fails: the catch block prints the error and the process exits
WriteFails ==
    /\ last.pc = "write"
    /\ last.written < Pieces(last.content)
    /\ last' = [last EXCEPT !.pc = "failed", !.outcome = "ConfigIOError"]
    /\ UNCHANGED <<files, registry, environ, nops>>

CloseFile ==
    /\ last.pc = "write"
    /\ last.written = Pieces(last.content)
    /\ last' = [last EXCEPT !.pc = "done"]
    /\ UNCHANGED <<files, registry, environ, nops>>

NextSave ==
    \/ \E op \in {"add", "remove", "clear"}, client \in ClientInputs,
          server \in ServerInputs, args \in ArgInputs, force \in BOOLEAN :
           BeginCommand(op, client, server, args, force)
    \/ OpenTruncates
    \/ OpenFails
    \/ WritePiece
    \/ WriteFails
    \/ CloseFile

SpecSave == InitSave /\ [][NextSave]_vars

----------------------------------------------------------------------------
(* Overlapping invocations of add.  Each process is one invocation: it      *)
(* loads the client's file and computes the configuration it will write     *)
(* (or exits on a failed check), and later saves it.  Nothing orders the    *)
(* steps of different processes.                                            *)

Procs == 1..MaxOps

RaceClients == {"claude", "y-cli"}

RaceServers == {"fetch", "sqlite", "github"}

Idle == [pc |-> "idle", client |-> "", server |-> "", force |-> FALSE,
         outcome |-> "", content |-> Unreadable, base |-> Unreadable]

InitRace ==
    /\ files \in InitialFiles
    /\ registry = Registry
    /\ environ = <<>>
    /\ nops = 0
    /\ last = [proc |-> [p \in Procs |-> Idle], log |-> <<>>]

\* add up to its call of updateClientConfig
LoadStep(p, client, server, force) ==
    /\ last.proc[p].pc = "idle"
    /\ LET r == addCommand(files, registry, environ, client, server, <<S_movies>>, force)
       IN  last' = [proc |-> [last.proc EXCEPT ![p] =
                                [pc |-> IF r.outcome = "ok" THEN "loaded" ELSE "exited",
                                 client |-> client, server |-> server, force |-> force,
                                 outcome |-> r.outcome,
                                 content |-> IF r.outcome = "ok" THEN r.files[client]
                                             ELSE Unreadable,
                                 base |-> IF r.outcome = "ok" THEN files[client]
                                          ELSE Unreadable]],
                    log |-> Append(last.log, [step |-> "load", p |-> p])]
    /\ nops' = nops + 1
    /\ UNCHANGED <<files, registry, environ>>

\* variant of SaveStep that loads the file again and puts its entry into it
SaveStepMerges(p) ==
    /\ last.proc[p].pc = "loaded"
    /\ LET c == last.proc[p].client
           s == last.proc[p].server
           mine == getClientConfig([files EXCEPT ![c] = last.proc[p].content], c).config
           now == getClientConfig(files, c).config
       IN  files' = updateClientConfig(files, c,
                        Config(TRUE, Put(Servers(now), s, Get(mine.mcpServers, s)),
                               now.rest))
    /\ last' = [proc |-> [last.proc EXCEPT ![p].pc = "done"],
                log |-> Append(last.log, [step |-> "save", p |-> p])]
    /\ UNCHANGED <<registry, environ, nops>>

\* updateClientConfig of what the process computed
SaveStep(p) ==
    /\ last.proc[p].pc = "loaded"
    /\ files' = [files EXCEPT ![last.proc[p].client] = last.proc[p].content]
    /\ last' = [proc |-> [last.proc EXCEPT ![p].pc = "done"],
                log |-> Append(last.log, [step |-> "save", p |-> p])]
    /\ UNCHANGED <<registry, environ, nops>>

NextRace ==
    \E p \in Procs :
        \/ \E client \in RaceClients, server \in RaceServers, force \in BOOLEAN :
               LoadStep(p, client, server, force)
        \/ SaveStep(p)

SpecRace == InitRace /\ [][NextRace]_vars

----------------------------------------------------------------------------
(* The validator, the replacement blocks and the store adapter on their    *)
(* own: one application to inputs drawn from the sets below.               *)

Ph(id) == <<"%", "{">> \o id \o <<"}">>

\* elements of a template's args: a plain string, two placeholders, and a
\* string that opens a placeholder and does not close it
ArgPool == {<<"x">>, Ph(<<"p">>), Ph(<<"q">>), <<"%", "{", "p">>}

\* the extra arguments: the first k of "v", "vv", "vvv", ... (the code looks
\* at their number and position, never into them)
ProvidedPool == {[i \in 1..k |-> [j \in 1..i |-> "v"]] : k \in 0..MaxProvided}

EnvPool ==
    { <<>>,
      <<KV("A", <<"s">>)>>,
      <<KV("A", Ph(<<"T">>))>>,
      <<KV("A", <<"s">>), KV("B", Ph(<<"U">>))>>,
      <<KV("A", Ph(<<"T">>)), KV("B", Ph(<<"T">>))>>,
      <<KV("A", Ph(<<"T">>)), KV("B", Ph(<<"U">>))>> }

\* T unset, empty, a token, or a value that reads as a placeholder; U unset or set
EnvironPool ==
    { t \o u : t \in { <<>>, <<KV(<<"T">>, <<>>)>>, <<KV(<<"T">>, <<"t", "o", "k">>)>>,
                       <<KV(<<"T">>, Ph(<<"T">>))>> },
               u \in { <<>>, <<KV(<<"U">>, <<"u">>)>> } }

ArgsTemplates ==
    {[command |-> "cmd"]}
        \cup {[command |-> "cmd", args |-> a] : a \in SeqsUpTo(ArgPool, MaxArgsLen)}

Templates ==
    ArgsTemplates \cup {WithField(s, "env", e) : s \in ArgsTemplates, e \in EnvPool}

\* records of a JSON-Lines file
LinePool ==
    { [name |-> "fetch", command |-> "uvx", args |-> <<S_fetch>>],
      [name |-> "fetch", command |-> "node", args |-> <<S_index>>,
       env |-> <<KV("PORT", <<"8">>)>>, auto_confirm |-> <<"read">>],
      [name |-> "fetch", command |-> "npx", args |-> <<S_y>>],
      [name |-> "sqlite", command |-> "uvx", args |-> <<S_sqlite>>],
      [name |-> "other", command |-> "uvx"],
      [name |-> "", command |-> "sh", args |-> <<S_y>>],
      [command |-> "true"] }

MaxLines == 2

FilePool(client) ==
    IF clients[client] = "jsonlines"
    THEN {Unreadable} \cup {JsonlFile(ls) : ls \in SeqsUpTo(LinePool, MaxLines)}
    ELSE {Unreadable, JsonBare, JsonEmpty, JsonTwo}

InitUnit ==
    /\ files = MkFiles(JsonBare, JsonBare, JsonBare, JsonlEmpty)
    /\ registry = Registry
    /\ environ = <<>>
    /\ nops = 0
    /\ last = NoOp(files)

\* what add does with a template between the lookup and the file: the
\* validator, and when nothing is missing the two replacement blocks
Compose(serverConfig, args, environment) ==
    /\ LET requiredItems == validateServerRequirements(serverConfig, args, environment)
       IN  last' = [op |-> "compose", serverConfig |-> serverConfig, args |-> args,
                    environment |-> environment, missing |-> requiredItems,
                    outcome |-> IF requiredItems = <<>> THEN "ok"
                                ELSE "MissingRequirements",
                    resolved |-> IF requiredItems = <<>>
                                 THEN Resolve(serverConfig, args, environment)
                                 ELSE serverConfig]
    /\ nops' = 1
    /\ UNCHANGED <<files, registry, environ>>

\* the args replacement block alone
ReplaceArgsBlock(serverConfig, args) ==
    /\ last' = [op |-> "replaceArgs", serverConfig |-> serverConfig, args |-> args,
                environment |-> <<>>, missing |-> <<>>, outcome |-> "ok",
                resolved |-> ResolveArgs(serverConfig, args)]
    /\ nops' = 1
    /\ UNCHANGED <<files, registry, environ>>

\* the env replacement block alone
ReplaceEnvBlock(serverConfig, environment) ==
    /\ last' = [op |-> "replaceEnv", serverConfig |-> serverConfig, args |-> <<>>,
                environment |-> environment, missing |-> <<>>, outcome |-> "ok",
                resolved |-> ResolveEnv(serverConfig, environment)]
    /\ nops' = 1
    /\ UNCHANGED <<files, registry, environ>>

\* getClientConfig of a file, then updateClientConfig of what it returned
RoundTrip(client, file) ==
    /\ LET loaded == getClientConfig([files EXCEPT ![client] = file], client)
       IN  /\ files' = IF loaded.ok THEN updateClientConfig(files, client, loaded.config)
                       ELSE [files EXCEPT ![client] = file]
           /\ last' = [op |-> "roundtrip", client |-> client, orig |-> file,
                       outcome |-> IF loaded.ok THEN "ok" ELSE "ConfigIOError"]
    /\ nops' = 1
    /\ UNCHANGED <<registry, environ>>

ComposeStep ==
    /\ nops = 0
    /\ \E serverConfig \in Templates, args \in ProvidedPool, environment \in EnvironPool :
           Compose(serverConfig, args, environment)

ReplaceArgsStep ==
    /\ nops = 0
    /\ \E serverConfig \in ArgsTemplates, args \in ProvidedPool :
           ReplaceArgsBlock(serverConfig, args)

ReplaceEnvStep ==
    /\ nops = 0
    /\ \E e \in EnvPool, environment \in EnvironPool :
           ReplaceEnvBlock([command |-> "cmd", env |-> e], environment)

RoundTripStep ==
    /\ nops = 0
    /\ \E client \in {"claude", "y-cli"} :
           \E file \in FilePool(client) : RoundTrip(client, file)

\* one application in a behaviour
NextUnit == ComposeStep \/ ReplaceArgsStep \/ ReplaceEnvStep \/ RoundTripStep

SpecUnit == InitUnit /\ [][NextUnit]_vars

----------------------------------------------------------------------------
(* What the claims speak of.                                               *)

\* the server-instance mapping a client's file holds, as the adapter loads it
Mapping(fs, client) ==
    LET loaded == getClientConfig(fs, client)
    IN  IF loaded.ok THEN Servers(loaded.config) ELSE <<>>

Readable(fs, client) == client \in ValidClientSet /\ fs[client].readable

PreMap == Mapping(last.pre, last.client)

PostMap == Mapping(files, last.client)

\* args and env of a definition, an absent one taken as empty
ArgsOf(e) == OrEmpty(e, "args")

EnvOf(e) == OrEmpty(e, "env")

\* the placeholders of a template's args, by position
PlaceholderIdx(targs) == {i \in 1..Len(targs) : IsPlaceholder(targs[i])}

\* targs[i] is the Rank-th placeholder of targs
Rank(targs, i) == Cardinality({j \in PlaceholderIdx(targs) : j <= i})

NthPlaceholder(targs, k) ==
    targs[CHOOSE i \in PlaceholderIdx(targs) : Rank(targs, i) = k]

\* out is targs filled by position from provided, the surplus appended
FilledByPosition(out, targs, provided) ==
    LET N == Cardinality(PlaceholderIdx(targs))
        M == Len(provided)
    IN  /\ Len(out) = Len(targs) + (IF M > N THEN M - N ELSE 0)
        /\ \A i \in 1..Len(targs) :
               out[i] = IF i \in PlaceholderIdx(targs) /\ Rank(targs, i) <= M
                        THEN provided[Rank(targs, i)]
                        ELSE targs[i]
        /\ \A k \in (N + 1)..M : out[Len(targs) + k - N] = provided[k]

\* out is tenv with every placeholder of a variable that has a non-empty value
\* replaced by that value, and every other value kept
EnvFilled(out, tenv, environment) ==
    /\ Len(out) = Len(tenv)
    /\ \A i \in 1..Len(tenv) :
           /\ out[i].key = tenv[i].key
           /\ LET X == PlaceholderName(tenv[i].val)
              IN  IF /\ IsPlaceholder(tenv[i].val)
                     /\ Has(environment, X)
                     /\ Get(environment, X) # <<>>
                  THEN out[i].val = Get(environment, X)
                  ELSE out[i].val = tenv[i].val

\* m2 is m1 with key k set or removed and every other entry as it was
SameExcept(m1, m2, k) ==
    /\ KeysOf(m2) \ {k} = KeysOf(m1) \ {k}
    /\ \A n \in KeysOf(m1) \ {k} : Get(m2, n) = Get(m1, n)
    /\ Len(m2) = Cardinality(KeysOf(m2))

AddOk == last.op = "add" /\ last.outcome = "ok"

\* C1: after a successful add the client's persisted mapping is the prior
\* mapping with one change: serverName maps to the template's resolved
\* definition (its command, its args filled by position, its env filled from
\* the environment); every other entry has the field values it had.  Adding
\* the placeholder-free template fetch to a configuration without entries
\* gives the mapping of that one entry with the template's command and args.
C1_AddChangesOneEntry ==
    AddOk =>
        LET tmpl == Get(registry, last.server)
            e == Get(PostMap, last.server)
        IN  /\ Has(PostMap, last.server)
            /\ SameExcept(PreMap, PostMap, last.server)
            /\ e.command = tmpl.command
            /\ FilledByPosition(ArgsOf(e), ArgsOf(tmpl), last.args)
            /\ EnvFilled(EnvOf(e), EnvOf(tmpl), environ)
            /\ (PreMap = <<>> /\ last.server = "fetch" /\ last.args = <<>>)
                   => /\ Len(PostMap) = 1
                      /\ PostMap[1].key = "fetch"
                      /\ e.command = "uvx"
                      /\ ArgsOf(e) = <<S_fetch>>

\* a successful add to a client that has other entries, one of them with
\* properties of its own
C1_Witness ==
    /\ AddOk
    /\ \E n \in KeysOf(PreMap) \ {last.server} : Get(PreMap, n) = OtherEntry
    /\ Len(PostMap) = 3

\* an add that passes the checks before the existence check: the client is
\* registered, the template is in the registry, the requirements are met and
\* the client's file loads
AddReachesExistenceCheck ==
    /\ last.op = "add"
    /\ validateClientServer(registry, last.client, last.server) = "ok"
    /\ validateServerRequirements(Get(registry, last.server), last.args, environ) = <<>>
    /\ Readable(last.pre, last.client)

\* C2: when serverName is already in the client's configuration, an add
\* without force fails with AlreadyExists and leaves the files as they were;
\* an add with force succeeds and replaces the entry with the newly resolved
\* definition.  The same add run a second time without force fails.
C2_ExistingNeedsForce ==
    /\ (AddReachesExistenceCheck /\ Has(PreMap, last.server)) =>
           IF last.force
           THEN /\ last.outcome = "ok"
                /\ LET tmpl == Get(registry, last.server)
                       e == Get(PostMap, last.server)
                   IN  /\ e.command = tmpl.command
                       /\ FilledByPosition(ArgsOf(e), ArgsOf(tmpl), last.args)
                       /\ EnvFilled(EnvOf(e), EnvOf(tmpl), environ)
                       /\ "disabled" \notin DOMAIN e
           ELSE /\ last.outcome = "AlreadyExists"
                /\ ~last.wrote
                /\ files = last.pre
    /\ (last.op = "add" /\ last.sameArgs /\ ~last.force) =>
           /\ last.outcome = "AlreadyExists"
           /\ files = last.pre

\* the same add twice without force: the second fails with AlreadyExists
C2_Witness ==
    /\ last.op = "add" /\ last.sameArgs /\ ~last.force
    /\ last.outcome = "AlreadyExists"

\* C6: for a JSON-format client every top-level key of the file other than
\* mcpServers has the same value after an add, a remove or a clear as before.
C6_JsonTopLevelKeysKept ==
    (/\ last.op \in {"add", "remove", "clear"}
     /\ Readable(last.pre, last.client)
     /\ clients[last.client] = "json") =>
        /\ files[last.client].readable
        /\ files[last.client].doc.rest = last.pre[last.client].doc.rest

\* a command has rewritten a JSON file that holds other top-level keys
C6_Witness ==
    /\ last.op \in {"add", "remove", "clear"}
    /\ last.wrote
    /\ clients[last.client] = "json"
    /\ Len(last.pre[last.client].doc.rest) = 2
    /\ files[last.client] # last.pre[last.client]

\* C7 as stated: an add followed at once by the remove of the same client and
\* server gives back the configuration as it was before the add.
C7_AddThenRemoveRestores ==
    (last.op = "remove" /\ last.afterAdd) =>
        /\ last.outcome = "ok"
        /\ PostMap = Mapping([last.pre EXCEPT ![last.client] = last.preAdd], last.client)

\* C7, amended: an add of a server that the client did not have, followed at
\* once by the remove of the same client and server, gives back the mapping as
\* it was before the add: the same instances in the same number with the same
\* field values.
C7_InsertThenRemoveRestores ==
    LET before == Mapping([last.pre EXCEPT ![last.client] = last.preAdd], last.client)
    IN  (last.op = "remove" /\ last.afterAdd /\ ~Has(before, last.server)) =>
            /\ last.outcome = "ok"
            /\ PostMap = before
            /\ Len(PostMap) = Len(PreMap) - 1

\* an insert and its remove on a client that keeps two other entries
C7_Witness ==
    /\ last.op = "remove" /\ last.afterAdd /\ last.outcome = "ok"
    /\ ~Has(Mapping([last.pre EXCEPT ![last.client] = last.preAdd], last.client),
            last.server)
    /\ Len(PostMap) = 2

\* the file holds the empty mapping: a JSON document with an empty mcpServers,
\* a JSON-Lines file without lines
HoldsEmptyMapping(file, client) ==
    /\ file.readable
    /\ IF clients[client] = "json"
       THEN file.doc.hasServers /\ file.doc.mcpServers = <<>>
       ELSE file.lines = <<>>

\* C9: remove fails with NotFound when serverName is not in the client's
\* configuration, and writes nothing; otherwise it deletes that entry alone,
\* leaves every other entry as it was and writes the result, also when the
\* mapping becomes empty: the file then exists and holds the empty mapping.
C9_RemoveDeletesOneEntry ==
    (last.op = "remove" /\ Readable(last.pre, last.client)) =>
        IF ~Has(PreMap, last.server)
        THEN last.outcome = "NotFound" /\ ~last.wrote /\ files = last.pre
        ELSE /\ last.outcome = "ok"
             /\ last.wrote
             /\ ~Has(PostMap, last.server)
             /\ SameExcept(PreMap, PostMap, last.server)
             /\ Len(PostMap) = Len(PreMap) - 1
             /\ files[last.client].readable
             /\ (Len(PreMap) = 1 => HoldsEmptyMapping(files[last.client], last.client))

\* a remove of the only entry of a client
C9_Witness ==
    /\ last.op = "remove" /\ last.outcome = "ok"
    /\ Len(PreMap) = 1
    /\ HoldsEmptyMapping(files[last.client], last.client)

\* C10 as stated: clear succeeds, writes the empty mapping and reports a
\* cleared count equal to the number of instances before it, 0 included.
C10_ClearReportsCount ==
    (last.op = "clear" /\ Readable(last.pre, last.client)) =>
        /\ last.outcome = "ok"
        /\ PostMap = <<>>
        /\ last.wrote
        /\ HoldsEmptyMapping(files[last.client], last.client)
        /\ last.msg = "Cleared"
        /\ last.count = Len(PreMap)

\* C10, amended: clear of a registered client succeeds and leaves the empty
\* mapping.  With at least one instance before it, it writes the empty mapping
\* and reports a cleared count equal to the number of instances before it;
\* with none, it writes nothing and reports that no servers are configured,
\* without a count.
C10_ClearEmptiesAndCounts ==
    (last.op = "clear" /\ Readable(last.pre, last.client)) =>
        /\ last.outcome = "ok"
        /\ PostMap = <<>>
        /\ IF Len(PreMap) > 0
           THEN /\ last.wrote
                /\ HoldsEmptyMapping(files[last.client], last.client)
                /\ last.msg = "Cleared"
                /\ last.count = Len(PreMap)
           ELSE /\ ~last.wrote
                /\ files = last.pre
                /\ last.msg = "NoServersConfigured"

\* a clear of a client with two instances
C10_Witness ==
    /\ last.op = "clear" /\ last.outcome = "ok"
    /\ Len(PreMap) = 2
    /\ last.count = 2

----------------------------------------------------------------------------
(* Claims about the validator, the replacement blocks and the adapter,     *)
(* under SpecUnit.                                                         *)

ArgItems == SelectSeq(last.missing, LAMBDA item : item.type = "arg")

\* C3: for a template with N positional placeholders and M < N extra
\* arguments the validator reports N - M missing positional requirements: the
\* (M+1)-th to the N-th placeholder in their order in args, each under the
\* identifier it declares; with M >= N it reports none.
C3_MissingPositionals ==
    last.op = "compose" =>
        LET targs == ArgsOf(last.serverConfig)
            N == Cardinality(PlaceholderIdx(targs))
            M == Len(last.args)
        IN  /\ Len(ArgItems) = IF M < N THEN N - M ELSE 0
            /\ \A k \in 1..Len(ArgItems) :
                   Ph(ArgItems[k].name) = NthPlaceholder(targs, M + k)

\* three placeholders and one argument: two are reported, under two names
C3_Witness ==
    /\ last.op = "compose"
    /\ Cardinality(PlaceholderIdx(ArgsOf(last.serverConfig))) = 3
    /\ Len(last.args) = 1
    /\ Len(ArgItems) = 2
    /\ ArgItems[1].name # ArgItems[2].name

\* C4: the resolver fills positional placeholders by position: the k-th
\* placeholder of args becomes the k-th extra argument whatever its
\* identifier, the other elements keep their value and order, placeholders
\* past the last extra argument stay as they are, and extra arguments past the
\* last placeholder are appended in order, also to a template without args.
C4_ArgsFilledByPosition ==
    (last.op = "replaceArgs" \/ (last.op = "compose" /\ last.outcome = "ok")) =>
        LET tmpl == last.serverConfig
            r == last.resolved
        IN  /\ r.command = tmpl.command
            /\ IF "args" \in DOMAIN tmpl
               THEN "args" \in DOMAIN r /\ FilledByPosition(r.args, tmpl.args, last.args)
               ELSE IF last.args # <<>>
               THEN "args" \in DOMAIN r /\ r.args = last.args
               ELSE "args" \notin DOMAIN r

\* two placeholders of one identifier around a plain element take the first
\* and the second argument
C4_Witness ==
    /\ last.op = "replaceArgs"
    /\ ArgsOf(last.serverConfig) = <<Ph(<<"p">>), <<"x">>, Ph(<<"p">>)>>
    /\ last.resolved.args = <<<<"v">>, <<"x">>, <<"v", "v">>>>

\* C5 as stated: in a resolution add performs, an env key whose value is a
\* placeholder %{X} with X in the environment gets the environment's value of
\* X, which is no longer placeholder syntax; other env values are copied.
C5_EnvPlaceholdersResolved ==
    (last.op = "compose" /\ last.outcome = "ok" /\ "env" \in DOMAIN last.serverConfig) =>
        LET tenv == last.serverConfig.env
            out == last.resolved.env
        IN  /\ Len(out) = Len(tenv)
            /\ \A i \in 1..Len(tenv) :
                   LET X == PlaceholderName(tenv[i].val)
                   IN  IF IsPlaceholder(tenv[i].val)
                       THEN Has(last.environment, X) =>
                                /\ out[i].val = Get(last.environment, X)
                                /\ ~IsPlaceholder(out[i].val)
                       ELSE out[i].val = tenv[i].val

\* C5, amended: an env key whose value is a placeholder %{X} with X set to a
\* value that is not empty gets that value as it is (so it reads as a
\* placeholder only when the environment's value does); an env key whose
\* value is not a placeholder is copied unchanged.
C5_EnvFilledFromEnvironment ==
    (/\ last.op = "replaceEnv" \/ (last.op = "compose" /\ last.outcome = "ok")
     /\ "env" \in DOMAIN last.serverConfig) =>
        /\ "env" \in DOMAIN last.resolved
        /\ EnvFilled(last.resolved.env, last.serverConfig.env, last.environment)

\* add resolves a template with a plain env value and a placeholder
C5_Witness ==
    /\ last.op = "compose" /\ last.outcome = "ok"
    /\ EnvOf(last.serverConfig) = <<KV("A", <<"s">>), KV("B", Ph(<<"U">>))>>
    /\ last.resolved.env = <<KV("A", <<"s">>), KV("B", <<"u">>)>>

\* the lines of a JSON-Lines file that name an instance, and of those the
\* last of each name
Named(lines) == {i \in 1..Len(lines) : "name" \in DOMAIN lines[i] /\ lines[i].name # ""}

LastOfName(lines) ==
    {i \in Named(lines) : \A j \in Named(lines) : lines[j].name = lines[i].name => j <= i}

\* C8: for both formats, loading a readable file and saving what was loaded
\* reproduces an equivalent mapping: the saved file loads to the same instance
\* names with the same field values, which are those of the original file (a
\* field a JSON-Lines record leaves out counting as empty).
C8_LoadSaveRoundTrip ==
    (last.op = "roundtrip" /\ last.orig.readable) =>
        LET c == last.client
            before == Mapping([files EXCEPT ![c] = last.orig], c)
            after == Mapping(files, c)
        IN  /\ last.outcome = "ok"
            /\ files[c].readable
            /\ Len(after) = Len(before)
            /\ KeysOf(after) = KeysOf(before)
            /\ \A n \in KeysOf(before) : Get(after, n) = Get(before, n)
            /\ IF clients[c] = "json"
               THEN Servers(files[c].doc) = Servers(last.orig.doc)
               ELSE LET lines == last.orig.lines
                    IN  /\ KeysOf(after) = {lines[i].name : i \in Named(lines)}
                        /\ \A i \in LastOfName(lines) :
                               \A f \in {"command", "args", "env", "auto_confirm"} :
                                   IF f \in DOMAIN lines[i]
                                   THEN Get(after, lines[i].name)[f] = lines[i][f]
                                   ELSE f # "command" => Get(after, lines[i].name)[f] = <<>>

\* a JSON-Lines file of two named records, one with env and auto_confirm,
\* whose saved lines are not the original ones
C8_Witness ==
    /\ last.op = "roundtrip" /\ last.outcome = "ok"
    /\ clients[last.client] = "jsonlines"
    /\ Len(Mapping(files, last.client)) = 2
    /\ \E i \in 1..2 : OrEmpty(last.orig.lines[i], "env") # <<>>
    /\ files[last.client] # last.orig

EnvItems == SelectSeq(last.missing, LAMBDA item : item.type = "env")

\* the env keys of a template whose value is a placeholder of a variable that
\* is unset or empty in the environment
UnmetEnv(tenv, environment) ==
    {i \in 1..Len(tenv) :
        /\ IsPlaceholder(tenv[i].val)
        /\ \/ ~Has(environment, PlaceholderName(tenv[i].val))
           \/ Get(environment, PlaceholderName(tenv[i].val)) = <<>>}

\* C11: the validator reports all gaps of a template in one result: every
\* missing positional placeholder, then every env placeholder whose variable
\* has no value in the environment; a missing argument does not hide a missing
\* variable nor the reverse, and add fails with MissingRequirements exactly
\* when the list is not empty.
C11_AllGapsListed ==
    last.op = "compose" =>
        LET targs == ArgsOf(last.serverConfig)
            tenv == EnvOf(last.serverConfig)
            N == Cardinality(PlaceholderIdx(targs))
            M == Len(last.args)
            unmet == UnmetEnv(tenv, last.environment)
        IN  /\ last.missing = ArgItems \o EnvItems
            /\ Len(ArgItems) = IF M < N THEN N - M ELSE 0
            /\ \A k \in 1..Len(ArgItems) :
                   Ph(ArgItems[k].name) = NthPlaceholder(targs, M + k)
            /\ Len(EnvItems) = Cardinality(unmet)
            /\ \A i \in unmet :
                   \E k \in 1..Len(EnvItems) : Ph(EnvItems[k].name) = tenv[i].val
            /\ \A k \in 1..Len(EnvItems) :
                   \E i \in unmet : Ph(EnvItems[k].name) = tenv[i].val
            /\ (last.outcome = "MissingRequirements") <=> (last.missing # <<>>)
            /\ (last.outcome = "ok") <=> (M >= N /\ unmet = {})

\* a template that lacks two arguments and two variables: all four are listed
C11_Witness ==
    /\ last.op = "compose" /\ last.outcome = "MissingRequirements"
    /\ Len(ArgItems) = 2
    /\ Len(EnvItems) = 2
    /\ EnvItems[1].name # EnvItems[2].name
    /\ Len(last.missing) = 4

\* C12: a successful add reports an overwrite ("Updated") exactly when
\* serverName was in the client's configuration before it, and an insert
\* ("Added") exactly when it was not, with and without force.
C12_VerbReportsPresence ==
    AddOk =>
        /\ last.msg \in {"Added", "Updated"}
        /\ (last.msg = "Updated") <=> Has(PreMap, last.server)

----------------------------------------------------------------------------
(* Claims about the commands, under Spec (continued).                      *)

\* the file of a JSON-Lines client is empty, or is not there
EmptyOrMissing(fs, client) ==
    /\ client \in ValidClientSet
    /\ clients[client] = "jsonlines"
    /\ fs[client] = JsonlFile(<<>>) \/ fs[client] = Missing

\* C13: for a JSON-Lines client an empty file and a missing file both load as
\* the empty mapping and are no error: an add whose template and requirements
\* are in order succeeds and leaves that one entry, a list succeeds and lists
\* nothing, a clear succeeds, as on a client without servers.
C13_EmptyOrMissingIsEmpty ==
    EmptyOrMissing(last.pre, last.client) =>
        /\ (/\ last.op = "add"
            /\ validateClientServer(registry, last.client, last.server) = "ok"
            /\ validateServerRequirements(Get(registry, last.server), last.args,
                                          environ) = <<>>)
               => /\ last.outcome = "ok"
                  /\ Names(PostMap) = <<last.server>>
        /\ last.op = "list" => last.outcome = "ok" /\ last.listed = <<>>
        /\ last.op = "clear" => last.outcome = "ok" /\ PostMap = <<>>

\* C16: list without a client visits every registered client: a client whose
\* file cannot be read is skipped, the command does not abort, and the names of
\* the server instances of every readable client are produced, also of a
\* client that comes after an unreadable one.
C16_ListSkipsUnreadable ==
    (last.op = "list" /\ last.client = "") =>
        /\ last.outcome = "ok"
        /\ \A c \in ValidClientSet :
               (Readable(last.pre, c) /\ Mapping(last.pre, c) # <<>>) =>
                   \E i \in 1..Len(last.listed) :
                       /\ last.listed[i].client = c
                       /\ last.listed[i].servers = Names(Mapping(last.pre, c))

----------------------------------------------------------------------------
(* Claims about the adapter, under SpecUnit (continued).                   *)

\* every record of the file carries name, command and args and nothing else
OnlyNameCommandArgs(lines) ==
    \A i \in 1..Len(lines) : DOMAIN lines[i] = {"name", "command", "args"}

\* the records that are the first of their name, the name not empty
FirstOfName(lines) ==
    {i \in Named(lines) : \A j \in Named(lines) : lines[j].name = lines[i].name => j >= i}

\* C14 as stated: a JSON-Lines file whose records carry only name, command
\* and args, loaded and saved again without any operation, is written back
\* as the identical lines.
C14_ResaveIdentical ==
    (/\ last.op = "roundtrip" /\ last.orig.readable
     /\ clients[last.client] = "jsonlines"
     /\ OnlyNameCommandArgs(last.orig.lines)) =>
        files[last.client] = last.orig

\* C14, amended: such a file loads to the mapping keyed by name with each
\* record's command and args and an empty env and auto_confirm, and is saved
\* as one line per instance (per distinct name that is not empty, in the order
\* of first occurrence), each with the name, the command and the args loaded
\* for it, to which the fields env (empty) and auto_confirm (empty) are added:
\* the same number of lines as the original when its names are distinct and
\* not empty, and never the identical line.
C14_ResaveNormalizes ==
    (/\ last.op = "roundtrip" /\ last.orig.readable
     /\ clients[last.client] = "jsonlines"
     /\ OnlyNameCommandArgs(last.orig.lines)) =>
        LET lines == last.orig.lines
            saved == files[last.client].lines
            m == Mapping([files EXCEPT ![last.client] = last.orig], last.client)
        IN  /\ last.outcome = "ok"
            /\ KeysOf(m) = {lines[i].name : i \in Named(lines)}
            /\ \A i \in LastOfName(lines) :
                   Get(m, lines[i].name) =
                       [command |-> lines[i].command, args |-> lines[i].args,
                        env |-> <<>>, auto_confirm |-> <<>>]
            /\ Len(saved) = Cardinality(FirstOfName(lines))
            /\ \A k \in 1..Len(saved) :
                   /\ saved[k] = [name |-> m[k].key, command |-> m[k].val.command,
                                  args |-> m[k].val.args, env |-> <<>>,
                                  auto_confirm |-> <<>>]
                   /\ \A j \in 1..Len(saved) : j < k =>
                          \E a, b \in FirstOfName(lines) :
                              a < b /\ lines[a].name = saved[j].name
                                    /\ lines[b].name = saved[k].name
            /\ (FirstOfName(lines) = 1..Len(lines)) =>
                   /\ Len(saved) = Len(lines)
                   /\ \A i \in 1..Len(lines) :
                          \A f \in {"name", "command", "args"} : saved[i][f] = lines[i][f]
            /\ lines # <<>> => files[last.client] # last.orig

\* the file of the one line of fetch: one line is saved, with env and
\* auto_confirm added
C14_Witness ==
    /\ last.op = "roundtrip" /\ last.outcome = "ok"
    /\ last.orig = JsonlFetch
    /\ files[last.client].lines =
           << [name |-> "fetch", command |-> "uvx", args |-> <<S_fetch>>,
               env |-> <<>>, auto_confirm |-> <<>>] >>

----------------------------------------------------------------------------
(* Claims about the save in steps, under SpecSave.                         *)

\* C15: a save makes no partial write: when it fails, at whatever point, the
\* destination file holds its complete previous content.
C15_FailedSaveKeepsPrevious ==
    last.pc = "failed" => files[last.client] = last.old

----------------------------------------------------------------------------
(* Claims about the commands, under Spec (further).                        *)

\* an add whose only defect is an env placeholder of a variable without value:
\* client and template are known, no argument is missing, the file loads and
\* the existence check passes
AddLacksOnlyEnv ==
    /\ last.op = "add"
    /\ validateClientServer(registry, last.client, last.server) = "ok"
    /\ LET tmpl == Get(registry, last.server)
       IN  /\ ArgRequirements(ArgsOf(tmpl), 0, last.args) = <<>>
           /\ UnmetEnv(EnvOf(tmpl), environ) # {}
    /\ Readable(last.pre, last.client)
    /\ ~(Has(PreMap, last.server) /\ ~last.force)

\* C17 as stated: an env placeholder whose variable has no value is not fatal
\* for add: the add succeeds, stores the entry with the literal placeholder as
\* that key's value, and gives a warning with the result.
C17_UnresolvedEnvIsWarning ==
    AddLacksOnlyEnv =>
        LET tenv == EnvOf(Get(registry, last.server))
        IN  /\ last.outcome = "ok"
            /\ Has(PostMap, last.server)
            /\ \A i \in UnmetEnv(tenv, environ) :
                   EnvOf(Get(PostMap, last.server))[i].val = tenv[i].val
            /\ last.warnings # <<>>

\* C17, amended: an env placeholder whose variable has no value is fatal for
\* add: the add fails with MissingRequirements, which names the variable,
\* writes nothing and gives no warning; hence a successful add never carries a
\* warning, its template having no env placeholder of a variable without
\* value.
C17_UnresolvedEnvIsFatal ==
    /\ AddLacksOnlyEnv =>
           LET tenv == EnvOf(Get(registry, last.server))
           IN  /\ last.outcome = "MissingRequirements"
               /\ \A i \in UnmetEnv(tenv, environ) :
                      \E k \in 1..Len(last.missing) :
                          /\ last.missing[k].type = "env"
                          /\ Ph(last.missing[k].name) = tenv[i].val
               /\ ~last.wrote
               /\ files = last.pre
               /\ last.warnings = <<>>
    /\ AddOk =>
           /\ last.warnings = <<>>
           /\ UnmetEnv(EnvOf(Get(registry, last.server)), environ) = {}

\* add of github to a client that can take it, the token not set
C17_Witness ==
    /\ AddLacksOnlyEnv
    /\ last.server = "github"
    /\ environ = <<>>
    /\ last.outcome = "MissingRequirements"
    /\ Len(last.missing) = 1

\* C18: a command that fails leaves every file as it was and has written
\* nothing: add failing with UnknownClient, UnknownServer, MissingRequirements
\* or AlreadyExists, remove failing with UnknownClient or NotFound (and either
\* failing to load the client's file).  A command that succeeds and changes
\* anything has written.
C18_FailureWritesNothing ==
    /\ (/\ last.op = "add"
        /\ last.outcome \in {"UnknownClient", "NoServersDefined", "UnknownServer",
                             "MissingRequirements", "AlreadyExists", "ConfigIOError"})
           => ~last.wrote /\ files = last.pre
    /\ (/\ last.op = "remove"
        /\ last.outcome \in {"UnknownClient", "NotFound", "ConfigIOError"})
           => ~last.wrote /\ files = last.pre
    /\ last.op \in {"add", "remove"} =>
           /\ last.outcome \in {"ok", "UnknownClient", "NoServersDefined", "UnknownServer",
                                "MissingRequirements", "AlreadyExists", "NotFound",
                                "ConfigIOError"}
           /\ last.wrote <=> last.outcome = "ok"

\* a remove of a server that a y-cli file of one record does not hold: a save
\* would have rewritten the record
C18_Witness ==
    /\ last.op = "remove" /\ last.outcome = "NotFound"
    /\ last.client = "y-cli"
    /\ last.pre["y-cli"] = JsonlFetch
    /\ files = last.pre

\* C20: an add, a remove or a clear of client X changes no file but X's, and
\* changes it only when it succeeds and writes; the file of every other
\* registered client and the registry are as they were before the command;
\* list and servers write no file.
C20_OnlyOwnFileWritten ==
    /\ registry = Registry
    /\ \A c \in ValidClientSet : c # last.client => files[c] = last.pre[c]
    /\ last.op \in {"list", "servers"} => ~last.wrote /\ files = last.pre
    /\ files # last.pre =>
           /\ last.op \in {"add", "remove", "clear"}
           /\ last.outcome = "ok" /\ last.wrote
           /\ last.client \in ValidClientSet

\* a command has rewritten one client's file while two other clients hold
\* files with content of their own
C20_Witness ==
    /\ last.op \in {"add", "remove", "clear"}
    /\ last.wrote
    /\ files[last.client] # last.pre[last.client]
    /\ \E c, d \in ValidClientSet \ {last.client} :
           /\ c # d
           /\ Readable(files, c) /\ Len(Mapping(files, c)) > 0
           /\ Readable(files, d) /\ files[d] # files[c]

----------------------------------------------------------------------------
(* Claims about overlapping invocations, under SpecRace.                   *)

Pos(step, p) == CHOOSE i \in 1..Len(last.log) : last.log[i] = [step |-> step, p |-> p]

\* p and q have both saved, to the same client and for different servers, and
\* both had loaded before either saved; q is the last of all to save to that
\* client
RacedAndLast(p, q) ==
    /\ p # q
    /\ last.proc[p].pc = "done" /\ last.proc[q].pc = "done"
    /\ last.proc[p].client = last.proc[q].client
    /\ last.proc[p].server # last.proc[q].server
    /\ Pos("load", p) < Pos("save", q)
    /\ Pos("load", q) < Pos("save", p)
    /\ Pos("save", p) < Pos("save", q)
    /\ \A r \in Procs :
           (last.proc[r].pc = "done" /\ last.proc[r].client = last.proc[q].client)
               => Pos("save", r) <= Pos("save", q)

\* the mapping of a client whose file is f
MappingOf(f, client) == Mapping([files EXCEPT ![client] = f], client)

\* C19 as stated: when two adds for different servers both load the client's
\* file before either saves, after both saves the file is the configuration
\* the last writer computed and holds no entry of the earlier writer's server.
C19_LastWriterWinsEntryAbsent ==
    \A p, q \in Procs :
        RacedAndLast(p, q) =>
            LET c == last.proc[q].client
            IN  /\ files[c] = last.proc[q].content
                /\ ~Has(Mapping(files, c), last.proc[p].server)

\* C19, amended: the file is the configuration the last writer computed, and
\* the earlier writer's change is lost: its server is absent, unless the file
\* the last writer loaded already held an entry of that name (the earlier add
\* was a forced overwrite), and then the file holds that old entry.
C19_LastWriterWins ==
    \A p, q \in Procs :
        RacedAndLast(p, q) =>
            LET c == last.proc[q].client
                s == last.proc[p].server
                final == Mapping(files, c)
                loaded == MappingOf(last.proc[q].base, c)
            IN  /\ files[c] = last.proc[q].content
                /\ Has(final, last.proc[q].server)
                /\ Has(final, s) <=> Has(loaded, s)
                /\ Has(loaded, s) => Get(final, s) = Get(loaded, s)
                /\ KeysOf(final) = KeysOf(loaded) \cup {last.proc[q].server}

\* two adds of servers the client did not have, both loaded before either
\* saved: the earlier writer's server is not in the file
C19_Witness ==
    \E p, q \in Procs :
        /\ RacedAndLast(p, q)
        /\ last.proc[p].base = last.proc[q].base
        /\ ~Has(MappingOf(last.proc[p].base, last.proc[p].client), last.proc[p].server)
        /\ Has(MappingOf(last.proc[p].content, last.proc[p].client), last.proc[p].server)
        /\ ~Has(Mapping(files, last.proc[p].client), last.proc[p].server)
        /\ Names(Mapping(files, last.proc[p].client)) = <<last.proc[q].server>>

====
